---- MODULE Spec2Model ----
(***************************************************************************)
(* uchroma animation engine (uchroma/anim.py): the AnimationManager facade, *)
(* the AnimationLoop compositor and the Renderer producer coroutines, run   *)
(* by a single-threaded asyncio event loop.                                 *)
(*                                                                          *)
(* Scheduling model.  Every coroutine runs as an asyncio task; one step of  *)
(* a task is the code between two suspension points and is atomic.  The    *)
(* event loop runs its ready handles first in, first out (call_soon): ready *)
(* holds the tasks and callbacks scheduled to run.  ensure_future, a        *)
(* task.cancel(), a queue put or get that ends a wait, and the completion   *)
(* of a task that is awaited or has a done callback each append a handle.   *)
(* A timer running out and draw() being resumed by what it awaits happen at *)
(* any time (Resume).  Manager methods are plain synchronous calls made     *)
(* between two handles.                                                     *)
(*                                                                          *)
(* Objects.  Renderers, loops and Layers are named by small numbers.  An    *)
(* object nothing refers to any more is garbage: Collect takes it away and  *)
(* renumbers the objects that remain, so that the numbers in use are the    *)
(* smallest ones.  The bounds limit the objects alive at one time.          *)
(***************************************************************************)
EXTENDS Integers, Sequences, FiniteSets, TLC

\* Bounds of the model: renderer objects, AnimationLoop objects and Layers
\* alive at one time, the count of finish() calls kept per renderer.
MaxRenderers == 2
MaxLoops == 2
MaxLayers == 4
MaxFinish == 2
\* Timer and draw() events are delivered while fewer than MaxBacklog handles
\* are waiting in the ready queue.
MaxBacklog == 2

\* anim.py:24
NUM_BUFFERS == 2

RIds == 1..MaxRenderers
LIds == 1..MaxLoops
Layers == 1..MaxLayers

\* Inputs of add_renderer: the named kind is not discovered, its constructor
\* raises ImportError, its init() returns False (the class defining a "name"
\* attribute or not), or it loads and initialises.
Kinds == {"unknown", "import_error", "init_fail_named", "init_fail_unnamed", "good"}

\* Outcomes of one resumption of Renderer.draw().
DrawOutcomes == {"True", "False", "raise"}

\* Outcomes of Frame.commit(layers): the hardware write succeeds or the
\* transport raises.
CommitOutcomes == {"ok", "raise"}

VARIABLES
    renderers,     \* AnimationManager.renderers (sequence of renderer ids)
    running,       \* AnimationManager.running
    mgrLoop,       \* AnimationManager._loop (0 = None)
    zorder,        \* Renderer.zorder (-1: no such object)
    rRunning,      \* Renderer._running
    avail_q,       \* Renderer._avail_q
    active_q,      \* Renderer._active_q
    finished,      \* finish() calls received since the renderer last entered _run's loop
    lAlive,        \* the AnimationLoop object exists
    lRenderers,    \* AnimationLoop._renderers
    lRunning,      \* AnimationLoop._running
    lError,        \* AnimationLoop._error
    lAnimTask,     \* AnimationLoop._anim_task is not None
    active_bufs,   \* AnimationLoop._active_bufs (0 = None entry)
    dirty,         \* a slot of _active_bufs has changed since the last commit
    taken,         \* the slots filled since _get_layers began its asyncio.wait
    animT,         \* the task running AnimationLoop._animate
    stopT,         \* the task running AnimationLoop._stop
    tasks,         \* AnimationLoop._tasks: the tasks running Renderer._run
    waiters,       \* AnimationLoop._waiters: the tasks running _dequeue
    doneCb,        \* _renderer_done is scheduled and has not run
    locked,        \* Layer lock flag
    drawn,         \* Layer holds drawn content (FALSE after clear())
    ready,         \* the event loop's queue of scheduled handles (FIFO)
    stopMidDraw,   \* _stop ran while a renderer task of the loop was in draw()
    height,        \* Frame._height
    width,         \* Frame._width
    quirk,         \* the driver has the quirk CUSTOM_FRAME_80
    matrix,        \* Frame._matrix: row -> column -> value of the cell
    draws,         \* the drawing calls made since the Frame was last cleared
    writeable,     \* the WRITEABLE flag of Frame._matrix
    txlog,         \* the commands the last prepare/commit/update gave the driver
    fOp,           \* the Frame method called last
    fRaised        \* that call ended by an exception

mgrVars == <<renderers, running, mgrLoop>>
rendVars == <<zorder, rRunning, avail_q, active_q, finished>>
loopVars == <<lAlive, lRenderers, lRunning, lError, lAnimTask, active_bufs, dirty,
              taken>>
taskVars == <<animT, stopT, tasks, waiters, doneCb, ready, stopMidDraw>>
layerVars == <<locked, drawn>>
animVars == <<mgrVars, rendVars, loopVars, taskVars, layerVars>>
frameVars == <<height, width, quirk, matrix, draws, writeable, txlog, fOp, fRaised>>
vars == <<animVars, frameVars>>

----------------------------------------------------------------------------
\* Helpers

Range(s) == {s[i] : i \in DOMAIN s}

Least(S) == CHOOSE x \in S : \A y \in S : x <= y

NoTask == [pc |-> "None", cancel |-> FALSE]
NewTask == [pc |-> "new", cancel |-> FALSE]
\* A _run task also holds its renderer (self) and the Layer it acquired;
\* a _dequeue task holds the renderer it looked up.
NewRun(r) == [pc |-> "new", cancel |-> FALSE, r |-> r, layer |-> 0]
NoWaiter == [pc |-> "None", cancel |-> FALSE, r |-> 0]
NewWaiter == [pc |-> "new", cancel |-> FALSE, r |-> 0]

\* How a task has ended: by returning, by a CancelledError, by an exception
\* of the program (failed), by the exception that Frame.commit raised, or,
\* for _run, through the except branch around draw().
Terminal == {"done", "cancelled", "failed", "commit_failed", "draw_failed"}
IsDone(t) == t.pc \in Terminal

TaskId(kind, L, i) == [k |-> kind, l |-> L, i |-> i]

\* The queues and layers as one value, threaded through the helpers below.
\* ok = FALSE: a put_nowait raised QueueFull.
QState == [run |-> rRunning, avail |-> avail_q, active |-> active_q,
           locked |-> locked, drawn |-> drawn, ok |-> TRUE]

\* The queues and layers after a step.
SetQ(q) ==
    /\ rRunning' = q.run
    /\ avail_q' = q.avail
    /\ active_q' = q.active
    /\ locked' = q.locked
    /\ drawn' = q.drawn

\* _flush draining the free pool only.
Flush_FreePoolOnly(q, r) ==
    IF q.run[r] THEN q
    ELSE [q EXCEPT !.avail[r] = <<>>]

\* Renderer._flush: nothing while the renderer runs, else both queues drained.
Flush(q, r) ==
    IF q.run[r] THEN q
    ELSE [q EXCEPT !.avail[r] = <<>>, !.active[r] = <<>>]

\* Renderer._stop: nothing unless running, else clear the flag and flush.
StopRenderer(q, r) ==
    IF ~q.run[r] THEN q
    ELSE Flush([q EXCEPT !.run[r] = FALSE], r)

\* Renderer._free_layer: unlock, clear, put_nowait on the free pool.
FreeLayer(q, r, layer) ==
    LET q1 == [q EXCEPT !.locked[layer] = FALSE, !.drawn[layer] = FALSE]
    IN  IF Len(q1.avail[r]) >= NUM_BUFFERS
        THEN [q1 EXCEPT !.ok = FALSE]
        ELSE [q1 EXCEPT !.avail[r] = Append(@, layer)]

----------------------------------------------------------------------------
\* Object lifetime

TaskOver(t) == t.pc \in Terminal \cup {"None"}

\* Nothing uses the loop any more: none of its tasks or callbacks is pending
\* and the Manager holds another one or, not running, will replace it before
\* it reads _loop again.
Dead(L) ==
    /\ lAlive[L]
    /\ (mgrLoop # L \/ ~running)
    /\ TaskOver(animT[L]) /\ TaskOver(stopT[L]) /\ ~doneCb[L]
    /\ \A i \in DOMAIN tasks[L] : TaskOver(tasks[L][i])
    /\ \A i \in DOMAIN waiters[L] : TaskOver(waiters[L][i])

Kept(L) == lAlive[L] /\ ~Dead(L)

\* The renderer is reachable from the Manager or from a loop that is kept.
RefRenderer(r) ==
    \/ \E i \in DOMAIN renderers : renderers[i] = r
    \/ \E L \in LIds :
         /\ Kept(L)
         /\ \/ \E i \in DOMAIN lRenderers[L] : lRenderers[L][i] = r
            \/ \E i \in DOMAIN tasks[L] : tasks[L][i].r = r
            \/ \E i \in DOMAIN waiters[L] : waiters[L][i].r = r

\* The Layer is held by a queue (q.avail, q.active) of a renderer, by a slot
\* of a kept loop or by a _run task of a kept loop.
InUse(l, q) ==
    \/ \E r \in RIds : \/ \E i \in DOMAIN q.avail[r] : q.avail[r][i] = l
                       \/ \E i \in DOMAIN q.active[r] : q.active[r][i] = l
    \/ \E L \in LIds :
         /\ Kept(L)
         /\ \/ \E i \in DOMAIN active_bufs[L] : active_bufs[L][i] = l
            \/ \E i \in DOMAIN tasks[L] : tasks[L][i].layer = l

\* Frame.create_layer(): a Layer object that is not in use.
CreateLayer(q) == Least({l \in Layers : ~InUse(l, q)})

\* The inner loop of _create_buffers for one renderer: NUM_BUFFERS fresh
\* layers handed to _free_layer, stopping at the first QueueFull.
RECURSIVE FreeFresh(_, _, _)
FreeFresh(q, r, j) ==
    IF j > NUM_BUFFERS \/ ~q.ok THEN q
    ELSE FreeFresh(FreeLayer(q, r, CreateLayer(q)), r, j + 1)

\* AnimationLoop._create_buffers over the renderers rs from index i on.
RECURSIVE CreateBuffers(_, _, _)
CreateBuffers(q, rs, i) ==
    IF i > Len(rs) \/ ~q.ok THEN q
    ELSE CreateBuffers(FreeFresh(Flush(q, rs[i]), rs[i], 1), rs, i + 1)

KeptLoops == {L \in LIds : Kept(L)}
RefRenderers == {r \in RIds : RefRenderer(r)}

\* The Layers reachable through the renderers rs and the loops that are kept.
LayersOf(rs) ==
    (UNION {Range(avail_q[r]) \cup Range(active_q[r]) : r \in rs}
     \cup UNION {Range(active_bufs[L]) \cup {tasks[L][i].layer : i \in DOMAIN tasks[L]} :
                   L \in KeptLoops})
    \ {0}

RefLayers == LayersOf(RefRenderers)

\* Something unreachable still holds values, or a reachable object has a
\* larger id than an unreachable one.
Garbage ==
    \/ \E L \in LIds : lAlive[L] /\ (Dead(L) \/ \E K \in LIds : K < L /\ ~lAlive[K])
    \/ \E refR \in {RefRenderers} :
         \/ \E r \in RIds \ refR : zorder[r] # -1 \/ \E s \in refR : s > r
         \/ \E refL \in {LayersOf(refR)} :
              \E l \in Layers \ refL : locked[l] \/ drawn[l] \/ \E m \in refL : m > l

\* The position of x in the set S, and the element of S at position n.
RankIn(S, x) == Cardinality({y \in S : y <= x})
NthOf(S, n) == CHOOSE x \in S : RankIn(S, x) = n

\* Where the collector moves a loop, a renderer and a Layer (0: no object).
MoveLoop(L) == IF L \in KeptLoops THEN RankIn(KeptLoops, L) ELSE 0
MoveRenderer(r) == IF r = 0 THEN 0 ELSE RankIn(RefRenderers, r)
MoveLayer(l) == IF l = 0 THEN 0 ELSE RankIn(RefLayers, l)

MoveRenderers(rs) == [i \in DOMAIN rs |-> MoveRenderer(rs[i])]
MoveLayers(ls) == [i \in DOMAIN ls |-> MoveLayer(ls[i])]
MoveTasks(ts) ==
    [i \in DOMAIN ts |-> [ts[i] EXCEPT !.r = MoveRenderer(@), !.layer = MoveLayer(@)]]
MoveWaiters(ws) == [i \in DOMAIN ws |-> [ws[i] EXCEPT !.r = MoveRenderer(@)]]

\* The runtime reclaims what is unreachable, before the program's next step
\* (see Next).  Object identities are not observable by the program: the
\* objects that remain are renumbered in their order, so that the ids in use
\* are always the smallest ones, and the rest returns to its initial value.
Collect ==
    /\ Garbage
    /\ LET nL == Cardinality(KeptLoops)
           nR == Cardinality(RefRenderers)
           nLy == Cardinality(RefLayers)
           oL(n) == NthOf(KeptLoops, n)
           oR(n) == NthOf(RefRenderers, n)
           oLy(n) == NthOf(RefLayers, n)
       IN  /\ renderers' = MoveRenderers(renderers)
           /\ mgrLoop' = MoveLoop(mgrLoop)
           /\ zorder' = [n \in RIds |-> IF n <= nR THEN zorder[oR(n)] ELSE -1]
           /\ rRunning' = [n \in RIds |-> n <= nR /\ rRunning[oR(n)]]
           /\ avail_q' = [n \in RIds |->
                            IF n <= nR THEN MoveLayers(avail_q[oR(n)]) ELSE <<>>]
           /\ active_q' = [n \in RIds |->
                             IF n <= nR THEN MoveLayers(active_q[oR(n)]) ELSE <<>>]
           /\ finished' = [n \in RIds |-> IF n <= nR THEN finished[oR(n)] ELSE 0]
           /\ lAlive' = [n \in LIds |-> n <= nL]
           /\ lRenderers' = [n \in LIds |->
                               IF n <= nL THEN MoveRenderers(lRenderers[oL(n)]) ELSE <<>>]
           /\ lRunning' = [n \in LIds |-> n <= nL /\ lRunning[oL(n)]]
           /\ lError' = [n \in LIds |-> n <= nL /\ lError[oL(n)]]
           /\ lAnimTask' = [n \in LIds |-> n <= nL /\ lAnimTask[oL(n)]]
           /\ active_bufs' = [n \in LIds |->
                                IF n <= nL THEN MoveLayers(active_bufs[oL(n)]) ELSE <<>>]
           /\ dirty' = [n \in LIds |-> n <= nL /\ dirty[oL(n)]]
           /\ taken' = [n \in LIds |-> IF n <= nL THEN taken[oL(n)] ELSE {}]
           /\ animT' = [n \in LIds |-> IF n <= nL THEN animT[oL(n)] ELSE NoTask]
           /\ stopT' = [n \in LIds |-> IF n <= nL THEN stopT[oL(n)] ELSE NoTask]
           /\ tasks' = [n \in LIds |-> IF n <= nL THEN MoveTasks(tasks[oL(n)]) ELSE <<>>]
           /\ waiters' = [n \in LIds |->
                            IF n <= nL THEN MoveWaiters(waiters[oL(n)]) ELSE <<>>]
           /\ doneCb' = [n \in LIds |-> n <= nL /\ doneCb[oL(n)]]
           /\ stopMidDraw' = [n \in LIds |-> n <= nL /\ stopMidDraw[oL(n)]]
           /\ locked' = [n \in Layers |-> n <= nLy /\ locked[oLy(n)]]
           /\ drawn' = [n \in Layers |-> n <= nLy /\ drawn[oLy(n)]]
           /\ ready' = [n \in DOMAIN ready |-> [ready[n] EXCEPT !.l = MoveLoop(@)]]
    /\ UNCHANGED <<running, frameVars>>

----------------------------------------------------------------------------
\* The event loop

InReady(id) == \E n \in DOMAIN ready : ready[n] = id

IsHead(id) == ready # <<>> /\ Head(ready) = id

\* Every task a loop can have: its _run and _dequeue tasks by renderer index,
\* its _animate and its _stop task.
LoopTasks ==
    [n \in 1..(MaxLoops * (2 * MaxRenderers + 2)) |->
       LET L == ((n - 1) \div (2 * MaxRenderers + 2)) + 1
           m == (n - 1) % (2 * MaxRenderers + 2)
       IN  IF m < MaxRenderers THEN TaskId("run", L, m + 1)
           ELSE IF m < 2 * MaxRenderers THEN TaskId("deq", L, m - MaxRenderers + 1)
           ELSE IF m = 2 * MaxRenderers THEN TaskId("anim", L, 0)
           ELSE TaskId("stop", L, 0)]

\* After the step: what the suspended task waits for is there.  asyncio.Queue
\* wakes a getter on put and a putter on get; asyncio.wait and gather wake
\* their caller when the awaited tasks are done (FIRST_COMPLETED: one of
\* them), a done callback of the awaited task running first.
Unblocked(id) ==
    CASE id.k = "run" ->
           /\ id.i \in DOMAIN tasks'[id.l]
           /\ LET t == tasks'[id.l][id.i]
              IN  \/ t.pc = "get" /\ avail_q'[t.r] # <<>>
                  \/ t.pc = "put" /\ Len(active_q'[t.r]) < NUM_BUFFERS
      [] id.k = "deq" ->
           /\ id.i \in DOMAIN waiters'[id.l]
           /\ LET w == waiters'[id.l][id.i]
              IN  w.pc = "get" /\ active_q'[w.r] # <<>>
      [] id.k = "anim" ->
           \/ /\ animT'[id.l].pc = "wait"
              /\ \E i \in DOMAIN waiters'[id.l] : IsDone(waiters'[id.l][i])
           \/ /\ animT'[id.l].pc = "gather"
              /\ \A i \in DOMAIN tasks'[id.l] : IsDone(tasks'[id.l][i])
      [] id.k = "stop" ->
           /\ stopT'[id.l].pc = "wait"
           /\ \A i \in DOMAIN tasks'[id.l] : IsDone(tasks'[id.l][i])
           /\ \A i \in DOMAIN waiters'[id.l] : IsDone(waiters'[id.l][i])
           /\ IsDone(animT'[id.l])

\* The ready queue after a step that leaves it as rdy, the tasks that the
\* step woke appended.
Schedule(rdy) ==
    ready' = rdy \o SelectSeq(LoopTasks,
                              LAMBDA id : Unblocked(id) /\ id \notin Range(rdy))

\* task.cancel() on the tasks ids in turn: a task that is not done gets the
\* CancelledError at its next step, which is scheduled unless it already is.
RECURSIVE CancelAll(_, _, _)
CancelAll(rdy, ids, done) ==
    IF ids = <<>> THEN rdy
    ELSE CancelAll(IF Head(ids) \in done \/ Head(ids) \in Range(rdy)
                   THEN rdy ELSE Append(rdy, Head(ids)),
                   Tail(ids), done)

CancelTask(t) == IF IsDone(t) THEN t ELSE [t EXCEPT !.cancel = TRUE]

----------------------------------------------------------------------------
\* Frame(driver, width, height): np.zeros, writeable, nothing sent yet.
FrameIdle(h, w, q) ==
    /\ height = h
    /\ width = w
    /\ quirk = q
    /\ matrix = [r \in 0..(h - 1) |-> [c \in 0..(w - 1) |-> <<0, 0>>]]
    /\ draws = 0
    /\ writeable = TRUE
    /\ txlog = <<>>
    /\ fOp = "init"
    /\ fRaised = FALSE

\* A new AnimationManager: no renderer, no loop.
AnimInit ==
    /\ renderers = <<>>
    /\ running = FALSE
    /\ mgrLoop = 0
    /\ zorder = [r \in RIds |-> -1]
    /\ rRunning = [r \in RIds |-> FALSE]
    /\ avail_q = [r \in RIds |-> <<>>]
    /\ active_q = [r \in RIds |-> <<>>]
    /\ finished = [r \in RIds |-> 0]
    /\ lAlive = [L \in LIds |-> FALSE]
    /\ lRenderers = [L \in LIds |-> <<>>]
    /\ lRunning = [L \in LIds |-> FALSE]
    /\ lError = [L \in LIds |-> FALSE]
    /\ lAnimTask = [L \in LIds |-> FALSE]
    /\ active_bufs = [L \in LIds |-> <<>>]
    /\ dirty = [L \in LIds |-> FALSE]
    /\ taken = [L \in LIds |-> {}]
    /\ animT = [L \in LIds |-> NoTask]
    /\ stopT = [L \in LIds |-> NoTask]
    /\ tasks = [L \in LIds |-> <<>>]
    /\ waiters = [L \in LIds |-> <<>>]
    /\ doneCb = [L \in LIds |-> FALSE]
    /\ locked = [l \in Layers |-> FALSE]
    /\ drawn = [l \in Layers |-> FALSE]
    /\ ready = <<>>
    /\ stopMidDraw = [L \in LIds |-> FALSE]

\* The animation engine over a Frame that is left alone.
Init == AnimInit /\ FrameIdle(1, 1, FALSE)

----------------------------------------------------------------------------
\* AnimationManager.  Its methods are synchronous: what a call returns and
\* the state it leaves are functions of the state it is made in.  ret is the
\* value returned; raised: the call ends by an exception instead.

\* _get_renderer counting the z-order from 1.
GetRenderer_OffByOne(kind) ==
    IF kind \in {"unknown", "import_error"} THEN -1 ELSE Len(renderers) + 1

\* _get_renderer: None (-1 here) for an unknown name or an ImportError of the
\* constructor, else an instance with zorder = len(self.renderers).
GetRenderer(kind) ==
    IF kind \in {"unknown", "import_error"} THEN -1 ELSE Len(renderers)

\* The object a constructor call gives: the smallest number not in use.
NewRenderer == Least({r \in RIds : ~RefRenderer(r)})
NewLoop == Least({L \in LIds : ~lAlive[L]})

\* add_renderer(name): the running flag is not consulted.  The error path of
\* a failed init() reads renderer.name, which Renderer does not define.
AddResult(kind) ==
    IF GetRenderer(kind) = -1 \/ kind = "init_fail_named"
    THEN [raised |-> FALSE, ret |-> -1, renderers |-> renderers, zorder |-> zorder]
    ELSE IF kind = "init_fail_unnamed"
    THEN [raised |-> TRUE, ret |-> 0, renderers |-> renderers, zorder |-> zorder]
    ELSE [raised |-> FALSE, ret |-> GetRenderer(kind),
          renderers |-> Append(renderers, NewRenderer),
          zorder |-> [zorder EXCEPT ![NewRenderer] = GetRenderer(kind)]]

\* There is room for the renderer object the call constructs.
CanAdd(kind) == GetRenderer(kind) # -1 => \E r \in RIds : ~RefRenderer(r)

AddRenderer(kind) ==
    /\ CanAdd(kind)
    /\ ~Garbage
    /\ UNCHANGED frameVars
    /\ renderers' = AddResult(kind).renderers
    /\ zorder' = AddResult(kind).zorder
    /\ UNCHANGED <<running, mgrLoop, rRunning, avail_q, active_q, finished,
                   loopVars, taskVars, layerVars>>

\* clear_renderers() without the test of self.running.
ClearResult_NoRunningCheck == [ret |-> TRUE, renderers |-> <<>>]

\* clear_renderers()
ClearResult ==
    IF running THEN [ret |-> FALSE, renderers |-> renderers]
    ELSE [ret |-> TRUE, renderers |-> <<>>]

ClearRenderers ==
    /\ ~Garbage
    /\ UNCHANGED frameVars
    /\ renderers' = ClearResult.renderers
    /\ UNCHANGED <<running, mgrLoop, rendVars, loopVars, taskVars, layerVars>>

\* There is room for one more loop and its Layers.
CanConstruct ==
    /\ \E L \in LIds : ~lAlive[L]
    /\ Cardinality({l \in Layers : ~InUse(l, QState)})
         >= NUM_BUFFERS * Len(renderers)

\* start() without the test of self.running.
StartResult_NoRunningCheck ==
    IF Len(renderers) = 0
    THEN [raised |-> FALSE, ret |-> FALSE, loop |-> 0, q |-> QState]
    ELSE LET q == CreateBuffers(QState, renderers, 1)
         IN  [raised |-> ~q.ok, ret |-> q.ok, loop |-> NewLoop, q |-> q]

\* start(blend_mode).  loop = 0: no AnimationLoop is constructed.  Else
\* AnimationLoop.start() sets _running, creates the buffers (q: the queues
\* and layers after _create_buffers) and schedules _animate; a QueueFull
\* raised by _create_buffers leaves start() by exception.
StartResult ==
    IF running \/ Len(renderers) = 0
    THEN [raised |-> FALSE, ret |-> FALSE, loop |-> 0, q |-> QState]
    ELSE LET q == CreateBuffers(QState, renderers, 1)
         IN  [raised |-> ~q.ok, ret |-> q.ok, loop |-> NewLoop, q |-> q]

CanStart == running \/ Len(renderers) = 0 \/ CanConstruct

MgrStart ==
    /\ CanStart
    /\ ~Garbage
    /\ UNCHANGED frameVars
    /\ \E res \in {StartResult} :
         IF res.loop = 0
         THEN UNCHANGED <<mgrVars, rendVars, loopVars, taskVars, layerVars>>
         ELSE /\ mgrLoop' = res.loop
              /\ lAlive' = [lAlive EXCEPT ![res.loop] = TRUE]
              /\ lRenderers' = [lRenderers EXCEPT ![res.loop] = renderers]
              /\ lRunning' = [lRunning EXCEPT ![res.loop] = TRUE]
              /\ waiters' = [waiters EXCEPT ![res.loop] =
                               [i \in DOMAIN renderers |-> NoWaiter]]
              /\ active_bufs' = [active_bufs EXCEPT ![res.loop] =
                                   [i \in DOMAIN renderers |-> 0]]
              /\ SetQ(res.q)
              /\ IF res.raised
                 THEN UNCHANGED <<animT, lAnimTask, running>>
                 ELSE /\ animT' = [animT EXCEPT ![res.loop] = NewTask]
                      /\ lAnimTask' = [lAnimTask EXCEPT ![res.loop] = TRUE]
                      /\ running' = res.ret
              /\ UNCHANGED <<renderers, zorder, finished, lError, dirty, taken, stopT,
                             tasks, doneCb, stopMidDraw>>
              /\ Schedule(IF res.raised THEN ready
                          ELSE Append(ready, TaskId("anim", res.loop, 0)))

\* stop(): AnimationLoop.stop() schedules _stop and returns True at once.
StopResult ==
    IF ~running THEN [ret |-> FALSE]
    ELSE IF ~lRunning[mgrLoop] THEN [ret |-> FALSE]
    ELSE [ret |-> TRUE]

MgrStop ==
    /\ ~Garbage
    /\ UNCHANGED frameVars
    /\ IF StopResult.ret
       THEN /\ stopT' = [stopT EXCEPT ![mgrLoop] = NewTask]
            /\ ready' = Append(ready, TaskId("stop", mgrLoop, 0))
            /\ running' = FALSE
       ELSE UNCHANGED <<running, stopT, ready>>
    /\ UNCHANGED <<renderers, mgrLoop, rendVars, loopVars, animT, tasks, waiters,
                   doneCb, stopMidDraw, layerVars>>

----------------------------------------------------------------------------
\* Renderer._run, one task per renderer of a loop

\* How a CancelledError thrown into draw() leaves _run: caught by
\* "except Exception" (CancelledError is an Exception before Python 3.8) or
\* propagated (a BaseException since).
CancelOutcomes == {"caught", "propagates"}

EndRun(t, pc) == [t EXCEPT !.pc = pc, !.cancel = FALSE, !.layer = 0, !.r = 0]

\* "layer = yield from self._avail_q.get()" followed by the call of draw().
Acquire(t, q) ==
    IF q.avail[t.r] # <<>>
    THEN [t |-> [t EXCEPT !.pc = "draw", !.layer = Head(q.avail[t.r])],
          q |-> [q EXCEPT !.avail[t.r] = Tail(@)]]
    ELSE [t |-> [t EXCEPT !.pc = "get"], q |-> q]

\* "yield from self._active_q.put(layer)" and, past it, the tick.
Submit(t, q) ==
    IF Len(q.active[t.r]) < NUM_BUFFERS
    THEN [t |-> [t EXCEPT !.pc = "tick", !.layer = 0],
          q |-> [q EXCEPT !.active[t.r] = Append(@, t.layer)]]
    ELSE [t |-> [t EXCEPT !.pc = "put"], q |-> q]

\* AfterDraw without the self._stop() that follows the loop.
AfterDraw_NoStop(t, q, out) ==
    IF out = "raise"
    THEN [t |-> EndRun(t, "draw_failed"), q |-> q]
    ELSE IF ~q.run[t.r]
    THEN [t |-> EndRun(t, "done"), q |-> q]
    ELSE IF out = "True"
    THEN Submit(t, [q EXCEPT !.locked[t.layer] = TRUE, !.drawn[t.layer] = TRUE])
    ELSE [t |-> [t EXCEPT !.pc = "tick", !.layer = 0], q |-> q]

\* What _run does with the result of draw().
AfterDraw(t, q, out) ==
    IF out = "raise"
    THEN [t |-> EndRun(t, "draw_failed"), q |-> StopRenderer(q, t.r)]
    ELSE IF ~q.run[t.r]
    THEN [t |-> EndRun(t, "done"), q |-> q]
    ELSE IF out = "True"
    THEN Submit(t, [q EXCEPT !.locked[t.layer] = TRUE, !.drawn[t.layer] = TRUE])
    ELSE [t |-> [t EXCEPT !.pc = "tick", !.layer = 0], q |-> q]

\* One step of the task t from its suspension point.
RunNext(t, q, out, py) ==
    CASE t.pc = "new" ->
           IF t.cancel THEN [t |-> EndRun(t, "cancelled"), q |-> q]
           ELSE IF q.run[t.r] THEN [t |-> EndRun(t, "done"), q |-> q]
           ELSE Acquire(t, [q EXCEPT !.run[t.r] = TRUE])
      [] t.pc = "get" ->
           IF t.cancel THEN [t |-> EndRun(t, "cancelled"), q |-> q]
           ELSE Acquire(t, q)
      [] t.pc = "draw" ->
           IF t.cancel
           THEN IF py = "caught"
                THEN [t |-> EndRun(t, "done"), q |-> StopRenderer(q, t.r)]
                ELSE [t |-> EndRun(t, "cancelled"), q |-> q]
           ELSE AfterDraw(t, q, out)
      [] t.pc = "put" ->
           IF t.cancel THEN [t |-> EndRun(t, "cancelled"), q |-> q]
           ELSE Submit(t, q)
      [] t.pc = "tick" ->
           IF t.cancel THEN [t |-> EndRun(t, "cancelled"), q |-> q]
           ELSE IF ~q.run[t.r] THEN [t |-> EndRun(t, "done"), q |-> q]
           ELSE Acquire(t, q)

Run(L, i) ==
    /\ IsHead(TaskId("run", L, i))
    /\ ~Garbage
    /\ UNCHANGED frameVars
    /\ LET t == tasks[L][i]
           inDraw == t.pc = "draw"
       IN  \E out \in (IF inDraw /\ ~t.cancel THEN DrawOutcomes ELSE {"True"}),
              py \in (IF inDraw /\ t.cancel THEN CancelOutcomes ELSE {"caught"}) :
              \E res \in {RunNext(t, QState, out, py)} :
                  /\ tasks' = [tasks EXCEPT ![L][i] = res.t]
                  /\ SetQ(res.q)
                  /\ finished' = IF ~rRunning[t.r] /\ res.q.run[t.r]
                                 THEN [finished EXCEPT ![t.r] = 0] ELSE finished
    /\ UNCHANGED <<mgrVars, zorder, loopVars, animT, stopT, waiters,
                   doneCb, stopMidDraw>>
    /\ Schedule(Tail(ready))

----------------------------------------------------------------------------
\* AnimationLoop._dequeue, one task per renderer index and wait

\* The compositor takes the head of the renderer's pending queue into slot i,
\* the Layer the slot held going back through _free_layer.
\* ok = FALSE: _free_layer raised QueueFull.
Consume(q, bufs, r, i) ==
    LET buf == Head(q.active[r])
        q1 == [q EXCEPT !.active[r] = Tail(@)]
        q2 == IF bufs[i] # 0 THEN FreeLayer(q1, r, bufs[i]) ELSE q1
    IN  [q |-> q2,
         bufs |-> IF q2.ok THEN [bufs EXCEPT ![i] = buf] ELSE bufs]

\* _dequeue_nowait returning the slot's Layer even when nothing is pending.
DequeueNowait_FreesAlways(q, bufs, L, i) ==
    IF ~lRunning[L] \/ i > Len(lRenderers[L]) THEN [q |-> q, bufs |-> bufs]
    ELSE IF q.active[lRenderers[L][i]] # <<>>
    THEN Consume(q, bufs, lRenderers[L][i], i)
    ELSE IF bufs[i] # 0
    THEN [q |-> FreeLayer(q, lRenderers[L][i], bufs[i]), bufs |-> bufs]
    ELSE [q |-> q, bufs |-> bufs]

\* _dequeue_nowait(r_idx), r_idx = i - 1.
DequeueNowait(q, bufs, L, i) ==
    IF ~lRunning[L] \/ i > Len(lRenderers[L]) THEN [q |-> q, bufs |-> bufs]
    ELSE IF q.active[lRenderers[L][i]] # <<>>
    THEN Consume(q, bufs, lRenderers[L][i], i)
    ELSE [q |-> q, bufs |-> bufs]

EndWait(w, pc) == [w EXCEPT !.pc = pc, !.cancel = FALSE, !.r = 0]

\* "buf = yield from renderer._active_q.get()" and the rest of _dequeue.
DequeueTake(w, q, bufs, i) ==
    IF q.active[w.r] = <<>>
    THEN [w |-> [w EXCEPT !.pc = "get"], q |-> q, bufs |-> bufs]
    ELSE LET c == Consume(q, bufs, w.r, i)
         IN  [w |-> EndWait(w, IF c.q.ok THEN "done" ELSE "failed"),
              q |-> [c.q EXCEPT !.ok = TRUE], bufs |-> c.bufs]

\* _dequeue looking its renderer up from the end of the list.
DequeueNext_FromEnd(w, q, bufs, L, i) ==
    IF w.cancel THEN [w |-> EndWait(w, "cancelled"), q |-> q, bufs |-> bufs]
    ELSE IF w.pc = "new"
    THEN IF ~lRunning[L] \/ i > Len(lRenderers[L])
         THEN [w |-> EndWait(w, "done"), q |-> q, bufs |-> bufs]
         ELSE DequeueTake([w EXCEPT !.r = lRenderers[L][Len(lRenderers[L]) + 1 - i]],
                          q, bufs, i)
    ELSE DequeueTake(w, q, bufs, i)

\* _dequeue(r_idx), r_idx = i - 1: one step of the task from where it waits.
DequeueNext(w, q, bufs, L, i) ==
    IF w.cancel THEN [w |-> EndWait(w, "cancelled"), q |-> q, bufs |-> bufs]
    ELSE IF w.pc = "new"
    THEN IF ~lRunning[L] \/ i > Len(lRenderers[L])
         THEN [w |-> EndWait(w, "done"), q |-> q, bufs |-> bufs]
         ELSE DequeueTake([w EXCEPT !.r = lRenderers[L][i]], q, bufs, i)
    ELSE DequeueTake(w, q, bufs, i)

Dequeue(L, i) ==
    /\ IsHead(TaskId("deq", L, i))
    /\ ~Garbage
    /\ UNCHANGED frameVars
    /\ \E res \in {DequeueNext(waiters[L][i], QState, active_bufs[L], L, i)} :
           /\ waiters' = [waiters EXCEPT ![L][i] = res.w]
           /\ active_bufs' = [active_bufs EXCEPT ![L] = res.bufs]
           /\ dirty' = [dirty EXCEPT ![L] = @ \/ res.bufs # active_bufs[L]]
           /\ taken' = IF animT[L].pc = "wait" /\ res.bufs # active_bufs[L]
                       THEN [taken EXCEPT ![L] = @ \cup {i}] ELSE taken
           /\ SetQ(res.q)
    /\ UNCHANGED <<mgrVars, zorder, finished, lAlive, lRenderers, lRunning, lError,
                   lAnimTask, animT, stopT, tasks, doneCb, stopMidDraw>>
    /\ Schedule(Tail(ready))

----------------------------------------------------------------------------
\* AnimationLoop._animate

\* The first loop of _get_layers replacing only the waiters that are None.
RECURSIVE ScheduleWaiters_KeepsDone(_, _, _, _)
ScheduleWaiters_KeepsDone(ws, new, L, i) ==
    IF i > Len(lRenderers[L]) THEN [ws |-> ws, new |-> new]
    ELSE IF ws[i].pc = "None"
    THEN ScheduleWaiters_KeepsDone([ws EXCEPT ![i] = NewWaiter],
                                   Append(new, TaskId("deq", L, i)), L, i + 1)
    ELSE ScheduleWaiters_KeepsDone(ws, new, L, i + 1)

\* First loop of _get_layers: a fresh _dequeue task for every index whose
\* waiter is None or done.  Gives the waiters and the ids of the new tasks.
RECURSIVE ScheduleWaiters(_, _, _, _)
ScheduleWaiters(ws, new, L, i) ==
    IF i > Len(lRenderers[L]) THEN [ws |-> ws, new |-> new]
    ELSE IF ws[i].pc = "None" \/ IsDone(ws[i])
    THEN ScheduleWaiters([ws EXCEPT ![i] = NewWaiter],
                         Append(new, TaskId("deq", L, i)), L, i + 1)
    ELSE ScheduleWaiters(ws, new, L, i + 1)

\* The second loop of _get_layers with its test inverted: _dequeue_nowait for
\* the indexes whose waiter has completed.
RECURSIVE CheckRest_OnlyDone(_, _, _, _)
CheckRest_OnlyDone(q, bufs, L, i) ==
    IF i > Len(lRenderers[L]) \/ ~q.ok THEN [q |-> q, bufs |-> bufs]
    ELSE IF waiters[L][i].pc # "None" /\ IsDone(waiters[L][i])
    THEN LET d == DequeueNowait(q, bufs, L, i)
         IN  CheckRest_OnlyDone(d.q, d.bufs, L, i + 1)
    ELSE CheckRest_OnlyDone(q, bufs, L, i + 1)

\* Second loop of _get_layers: _dequeue_nowait for every index whose waiter
\* has not completed, stopping at an exception.
RECURSIVE CheckRest(_, _, _, _)
CheckRest(q, bufs, L, i) ==
    IF i > Len(lRenderers[L]) \/ ~q.ok THEN [q |-> q, bufs |-> bufs]
    ELSE IF waiters[L][i].pc # "None" /\ ~IsDone(waiters[L][i])
    THEN LET d == DequeueNowait(q, bufs, L, i)
         IN  CheckRest(d.q, d.bufs, L, i + 1)
    ELSE CheckRest(q, bufs, L, i + 1)

RunIds(L) == [i \in DOMAIN lRenderers[L] |-> TaskId("run", L, i)]

\* The slots of the loop become bufs without a commit.
Changed(L, bufs) == dirty' = [dirty EXCEPT ![L] = @ \/ bufs # active_bufs[L]]

\* The task ends: its done callback _renderer_done is scheduled.
AnimEnd(L, pc, rdy) ==
    /\ animT' = [animT EXCEPT ![L] = [pc |-> pc, cancel |-> FALSE]]
    /\ doneCb' = [doneCb EXCEPT ![L] = TRUE]
    /\ Schedule(Append(rdy, TaskId("done", L, 0)))

\* "while self._running: yield from self._get_layers()" up to asyncio.wait,
\* or the gather after the loop.  rdy holds the handles already scheduled.
AnimLoopHead(L, rdy) ==
    IF lRunning[L]
    THEN \E s \in {ScheduleWaiters(waiters[L], <<>>, L, 1)} :
             /\ waiters' = [waiters EXCEPT ![L] = s.ws]
             /\ animT' = [animT EXCEPT ![L].pc = "wait"]
             /\ Schedule(rdy \o s.new)
    ELSE /\ animT' = [animT EXCEPT ![L].pc = "gather"]
         /\ UNCHANGED waiters
         /\ Schedule(rdy)

Animate(L) ==
    /\ IsHead(TaskId("anim", L, 0))
    /\ ~Garbage
    /\ UNCHANGED frameVars
    /\ UNCHANGED <<mgrVars, zorder, finished, lAlive, lRenderers, lRunning, lError,
                   lAnimTask, stopT, stopMidDraw>>
    /\ IF animT[L].cancel
       THEN /\ UNCHANGED <<rRunning, avail_q, active_q, layerVars, active_bufs,
                           dirty, taken, tasks, waiters>>
            /\ AnimEnd(L, "cancelled", Tail(ready))
       ELSE CASE animT[L].pc = "new" ->
                   /\ tasks' = [tasks EXCEPT ![L] =
                                  [i \in DOMAIN lRenderers[L] |-> NewRun(lRenderers[L][i])]]
                   /\ UNCHANGED <<rRunning, avail_q, active_q, layerVars,
                                  active_bufs, dirty, taken, doneCb>>
                   /\ AnimLoopHead(L, Tail(ready) \o RunIds(L))
              [] animT[L].pc = "wait" ->
                   \E c \in {CheckRest(QState, active_bufs[L], L, 1)} :
                       /\ SetQ([c.q EXCEPT !.ok = TRUE])
                       /\ active_bufs' = [active_bufs EXCEPT ![L] = c.bufs]
                       /\ taken' = [taken EXCEPT ![L] = {}]
                       /\ UNCHANGED <<tasks, waiters>>
                       /\ IF ~c.q.ok
                          THEN /\ Changed(L, c.bufs)
                               /\ AnimEnd(L, "failed", Tail(ready))
                          ELSE IF ~lRunning[L] \/ lError[L]
                          THEN /\ animT' = [animT EXCEPT ![L].pc = "gather"]
                               /\ Changed(L, c.bufs)
                               /\ UNCHANGED doneCb
                               /\ Schedule(Tail(ready))
                          ELSE \E out \in CommitOutcomes :
                                 IF out = "raise"
                                 THEN /\ Changed(L, c.bufs)
                                      /\ AnimEnd(L, "commit_failed", Tail(ready))
                                 ELSE /\ animT' = [animT EXCEPT ![L].pc = "tick"]
                                      /\ dirty' = [dirty EXCEPT ![L] = FALSE]
                                      /\ UNCHANGED doneCb
                                      /\ Schedule(Tail(ready))
              [] animT[L].pc = "tick" ->
                   /\ UNCHANGED <<rRunning, avail_q, active_q, layerVars,
                                  active_bufs, dirty, taken, tasks, doneCb>>
                   /\ AnimLoopHead(L, Tail(ready))
              [] animT[L].pc = "gather" ->
                   /\ UNCHANGED <<rRunning, avail_q, active_q, layerVars,
                                  active_bufs, dirty, taken, tasks, waiters>>
                   /\ AnimEnd(L, IF \E i \in DOMAIN tasks[L] : tasks[L][i].pc = "cancelled"
                                 THEN "cancelled" ELSE "done", Tail(ready))

\* _renderer_done, the done callback of the _animate task.
RendererDone(L) ==
    /\ IsHead(TaskId("done", L, 0))
    /\ ~Garbage
    /\ UNCHANGED frameVars
    /\ ready' = Tail(ready)
    /\ doneCb' = [doneCb EXCEPT ![L] = FALSE]
    /\ finished' = [r \in RIds |->
                      IF r \in Range(lRenderers[L]) /\ finished[r] < MaxFinish
                      THEN finished[r] + 1 ELSE finished[r]]
    /\ lRenderers' = [lRenderers EXCEPT ![L] = <<>>]
    /\ lAnimTask' = [lAnimTask EXCEPT ![L] = FALSE]
    /\ lError' = [lError EXCEPT ![L] = FALSE]
    /\ UNCHANGED <<mgrVars, zorder, rRunning, avail_q, active_q, lAlive, lRunning,
                   active_bufs, dirty, taken, animT, stopT, tasks, waiters, stopMidDraw,
                   layerVars>>

----------------------------------------------------------------------------
\* AnimationLoop._stop, the task scheduled by AnimationLoop.stop()

RECURSIVE StopRenderers(_, _, _)
StopRenderers(q, rs, i) ==
    IF i > Len(rs) THEN q ELSE StopRenderers(StopRenderer(q, rs[i]), rs, i + 1)

\* Index of the first waiter that is None (waiter.done() raises), else 0.
FirstNone(ws) ==
    IF \E i \in DOMAIN ws : ws[i].pc = "None"
    THEN Least({i \in DOMAIN ws : ws[i].pc = "None"})
    ELSE 0

\* The tasks _stop cancels, in its order: the _run tasks, the waiters up to
\* the first None, the _animate task; and those among them already done.
StopTargets(L, k) ==
    [i \in DOMAIN tasks[L] |-> TaskId("run", L, i)]
    \o [i \in 1..(IF k = 0 THEN Len(waiters[L]) ELSE k - 1) |-> TaskId("deq", L, i)]
    \o (IF k = 0 /\ lAnimTask[L] THEN <<TaskId("anim", L, 0)>> ELSE <<>>)

DoneIds(L) ==
    {TaskId("run", L, i) : i \in {j \in DOMAIN tasks[L] : IsDone(tasks[L][j])}}
    \cup {TaskId("deq", L, i) : i \in {j \in DOMAIN waiters[L] : IsDone(waiters[L][j])}}
    \cup (IF IsDone(animT[L]) THEN {TaskId("anim", L, 0)} ELSE {})

Stop(L) ==
    /\ IsHead(TaskId("stop", L, 0))
    /\ ~Garbage
    /\ UNCHANGED frameVars
    /\ UNCHANGED <<mgrVars, zorder, finished, lAlive, lRenderers, lError, lAnimTask,
                   active_bufs, dirty, taken, doneCb>>
    /\ IF stopT[L].pc = "wait"
       THEN /\ stopT' = [stopT EXCEPT ![L].pc = "done"]
            /\ ready' = Tail(ready)
            /\ UNCHANGED <<rRunning, avail_q, active_q, layerVars, lRunning, animT,
                           tasks, waiters, stopMidDraw>>
       ELSE IF ~lRunning[L]
       THEN /\ stopT' = [stopT EXCEPT ![L].pc = "done"]
            /\ ready' = Tail(ready)
            /\ UNCHANGED <<rRunning, avail_q, active_q, layerVars, lRunning,
                           animT, tasks, waiters, stopMidDraw>>
       ELSE LET k == FirstNone(waiters[L])
            IN  /\ lRunning' = [lRunning EXCEPT ![L] = FALSE]
                /\ SetQ(StopRenderers(QState, lRenderers[L], 1))
                /\ tasks' = [tasks EXCEPT ![L] =
                               [i \in DOMAIN tasks[L] |-> CancelTask(tasks[L][i])]]
                /\ waiters' = [waiters EXCEPT ![L] =
                                 [i \in DOMAIN waiters[L] |->
                                    IF k = 0 \/ i < k THEN CancelTask(waiters[L][i])
                                    ELSE waiters[L][i]]]
                /\ animT' = [animT EXCEPT ![L] =
                               IF k = 0 /\ lAnimTask[L] THEN CancelTask(@) ELSE @]
                /\ stopT' = [stopT EXCEPT ![L].pc =
                               IF k = 0 /\ lAnimTask[L] THEN "wait" ELSE "failed"]
                /\ stopMidDraw' = [stopMidDraw EXCEPT ![L] =
                                     \E i \in DOMAIN tasks[L] : tasks[L][i].pc = "draw"]
                /\ Schedule(CancelAll(Tail(ready), StopTargets(L, k), DoneIds(L)))

----------------------------------------------------------------------------
\* A timer runs out (the tick of a _run task or of _animate), or what draw()
\* awaits completes: the suspended task is scheduled.
CanResume(id) ==
    IF id.k = "run"
    THEN /\ id.i \in DOMAIN tasks[id.l]
         /\ tasks[id.l][id.i].pc \in {"tick", "draw"}
    ELSE animT[id.l].pc = "tick"

Resume(id) ==
    /\ CanResume(id)
    /\ ~InReady(id)
    /\ Len(ready) < MaxBacklog
    /\ ~Garbage
    /\ UNCHANGED frameVars
    /\ ready' = Append(ready, id)
    /\ UNCHANGED <<mgrVars, rendVars, loopVars, animT, stopT, tasks, waiters, doneCb,
                   stopMidDraw, layerVars>>

ResumeIds ==
    {TaskId("run", L, i) : L \in LIds, i \in RIds}
    \cup {TaskId("anim", L, 0) : L \in LIds}

----------------------------------------------------------------------------
\* One step: the collector when there is garbage, else a call of the
\* Manager, an event or the handle at the head of the ready queue.
Next ==
    \/ Collect
    \/ \E kind \in Kinds : AddRenderer(kind)
    \/ ClearRenderers
    \/ MgrStart
    \/ MgrStop
    \/ \E id \in ResumeIds : Resume(id)
    \/ \E L \in LIds, i \in RIds : Run(L, i)
    \/ \E L \in LIds, i \in RIds : Dequeue(L, i)
    \/ \E L \in LIds : Animate(L)
    \/ \E L \in LIds : RendererDone(L)
    \/ \E L \in LIds : Stop(L)

Spec == Init /\ [][Next]_vars

----------------------------------------------------------------------------
\* Properties

\* The _run tasks that are inside draw() for the renderer r.
Drawing(r) ==
    {id \in LIds \X RIds :
       /\ id[2] \in DOMAIN tasks[id[1]]
       /\ tasks[id[1]][id[2]].pc = "draw"
       /\ tasks[id[1]][id[2]].r = r}

\* The Layers in the compositor's slots.
Slots == UNION {Range(active_bufs[L]) : L \in LIds} \ {0}

\* Every _run task, every outstanding wait and the _animate task of the loop
\* have reached a terminal state.
Shutdown(L) ==
    /\ \A i \in DOMAIN tasks[L] : IsDone(tasks[L][i])
    /\ \A i \in DOMAIN waiters[L] : waiters[L][i].pc = "None" \/ IsDone(waiters[L][i])
    /\ IsDone(animT[L])

\* C1: double buffering.  For every renderer the free pool and the pending
\* queue share no Layer, a Layer handed to draw() is neither in the pending
\* queue nor in a compositor slot, and free + pending + (1 if a Layer is being
\* drawn) is at most NUM_BUFFERS.
C1_DoubleBuffering ==
    \A r \in RIds :
      /\ Range(avail_q[r]) \cap Range(active_q[r]) = {}
      /\ \A id \in Drawing(r) :
            tasks[id[1]][id[2]].layer \notin Range(active_q[r]) \cup Slots
      /\ Len(avail_q[r]) + Len(active_q[r]) + (IF Drawing(r) # {} THEN 1 ELSE 0)
           <= NUM_BUFFERS

\* C2: lock state matches ownership while the loop runs.  For a loop that is
\* running, the Layers in the free pool of its renderers and those passed to
\* draw() are unlocked, those in a pending queue and in its slots are locked.
C2_LockMatchesOwnership ==
    \A L \in LIds :
      lRunning[L] =>
        /\ \A i \in DOMAIN lRenderers[L] :
              /\ \A l \in Range(avail_q[lRenderers[L][i]]) : ~locked[l]
              /\ \A l \in Range(active_q[lRenderers[L][i]]) : locked[l]
        /\ \A i \in DOMAIN tasks[L] :
              tasks[L][i].pc = "draw" => ~locked[tasks[L][i].layer]
        /\ \A i \in DOMAIN active_bufs[L] :
              active_bufs[L][i] # 0 => locked[active_bufs[L][i]]

\* C3: stop() returns after full shutdown.  Once stop() has returned True
\* for a loop (its _stop task exists), the loop is shut down.
C3_StopWaitsForShutdown ==
    \A L \in LIds : stopT[L].pc # "None" => Shutdown(L)

\* C4: a loop stopped while a renderer was inside draw() shuts down, and
\* when its _stop has completed none of the Layers it holds is locked.
C4_StopMidDrawUnlocks ==
    \A L \in LIds :
      stopMidDraw[L] /\ stopT[L].pc = "done" =>
        /\ Shutdown(L)
        /\ \A i \in DOMAIN active_bufs[L] :
              active_bufs[L][i] # 0 => ~locked[active_bufs[L][i]]

\* C5: a transport error in commit is fatal to the run.  Once _animate has
\* ended by the exception of Frame.commit and its done callback has run, the
\* loop is not running, its renderers are stopped with their tasks ended,
\* and the Manager that owns the loop is not running.
C5_CommitErrorIsFatal ==
    \A L \in LIds :
      animT[L].pc = "commit_failed" /\ ~doneCb[L] =>
        /\ ~lRunning[L]
        /\ \A i \in DOMAIN tasks[L] : IsDone(tasks[L][i])
        /\ mgrLoop = L => ~running

\* C6: an exception of draw() ends that renderer only.  At the step where a
\* _run task leaves through the except branch, its renderer becomes stopped,
\* every other renderer keeps its running flag and its task, the loop and its
\* _animate task are as before and the slots hold the same Layers in the same
\* state; and as long as the loop runs, the slot of the failed renderer keeps
\* its Layer, locked and with its content.
C6_DrawErrorStopsOneRenderer ==
    [][\A L \in LIds, i \in RIds :
         /\ (/\ i \in DOMAIN tasks[L]
             /\ tasks[L][i].pc = "draw"
             /\ i \in DOMAIN tasks'[L]
             /\ tasks'[L][i].pc = "draw_failed")
            => /\ ~rRunning'[tasks[L][i].r]
               /\ \A r \in RIds \ {tasks[L][i].r} :
                     /\ rRunning'[r] = rRunning[r]
                     /\ avail_q'[r] = avail_q[r]
                     /\ active_q'[r] = active_q[r]
               /\ \A j \in DOMAIN tasks[L] \ {i} : tasks'[L][j] = tasks[L][j]
               /\ lRunning' = lRunning
               /\ animT' = animT
               /\ waiters' = waiters
               /\ active_bufs' = active_bufs
               /\ locked' = locked
               /\ drawn' = drawn
         /\ (/\ ~Garbage
             /\ i \in DOMAIN tasks[L]
             /\ tasks[L][i].pc = "draw_failed"
             /\ lRunning[L] /\ lRunning'[L]
             /\ active_bufs[L][i] # 0)
            => /\ active_bufs'[L][i] = active_bufs[L][i]
               /\ locked'[active_bufs[L][i]] = locked[active_bufs[L][i]]
               /\ drawn'[active_bufs[L][i]] = drawn[active_bufs[L][i]]
      ]_vars

\* The draw() of one of a loop's two renderers has raised: the loop runs,
\* the failed renderer's slot holds its last Layer, locked, and the other
\* renderer runs.
C6_Witness ==
    \E L \in LIds : \E i, j \in DOMAIN tasks[L] :
      /\ i # j
      /\ tasks[L][i].pc = "draw_failed"
      /\ lRunning[L]
      /\ ~IsDone(animT[L])
      /\ active_bufs[L][i] # 0
      /\ locked[active_bufs[L][i]]
      /\ ~IsDone(tasks[L][j])
      /\ tasks[L][j].r # 0
      /\ rRunning[tasks[L][j].r]

\* C7: add_renderer while the Manager is running returns -1 and leaves the
\* renderer list as it is, whatever the kind.
C7_AddWhileRunningFails ==
    running =>
      \A kind \in Kinds :
        CanAdd(kind) =>
          /\ ~AddResult(kind).raised
          /\ AddResult(kind).ret = -1
          /\ AddResult(kind).renderers = renderers

\* The number of AnimationLoops that exist.
NumLoops == Cardinality({L \in LIds : lAlive[L]})

\* C8: start() with an empty renderer list or with the Manager running
\* returns False and changes nothing: in such a state the result of start()
\* is False with no loop constructed and the queues as they are, no step
\* adds a loop, and with an empty list running stays False.
C8_StartRefused ==
    /\ [](running \/ Len(renderers) = 0 =>
            /\ ~StartResult.raised
            /\ StartResult.ret = FALSE
            /\ StartResult.loop = 0
            /\ StartResult.q = QState)
    /\ [][running \/ Len(renderers) = 0 =>
            /\ NumLoops' <= NumLoops
            /\ ~running => ~running']_vars

\* start() is called with the Manager running, when there would be room
\* for one more loop.
C8_Witness == running /\ Len(renderers) > 0 /\ CanConstruct /\ ~Garbage

\* The kinds whose add_renderer must fail: unknown name, constructor that
\* cannot be imported, init() returning False.
FailingKinds == {"unknown", "import_error", "init_fail_named", "init_fail_unnamed"}

\* C9: add_renderer of an unknown kind or of a kind whose init() fails
\* returns -1 and leaves the renderer list and the z-orders as they are.
C9_FailedAddReturnsSentinel ==
    \A kind \in FailingKinds :
      CanAdd(kind) =>
        /\ ~AddResult(kind).raised
        /\ AddResult(kind).ret = -1
        /\ AddResult(kind).renderers = renderers
        /\ AddResult(kind).zorder = zorder

\* C10: the renderer at index i of the Manager's list has z-order i, and an
\* add_renderer that succeeds returns the index of the renderer it appended.
C10_ZorderIsIndex ==
    /\ \A i \in DOMAIN renderers : zorder[renderers[i]] = i - 1
    /\ \A kind \in Kinds :
         CanAdd(kind) /\ ~AddResult(kind).raised /\ AddResult(kind).ret # -1 =>
           /\ AddResult(kind).renderers = Append(renderers, NewRenderer)
           /\ AddResult(kind).ret = Len(renderers)
           /\ AddResult(kind).zorder[NewRenderer] = Len(renderers)

\* add_renderer has succeeded until the list holds MaxRenderers renderers,
\* each with its index as z-order.
C10_Witness ==
    /\ Len(renderers) = MaxRenderers
    /\ \A i \in DOMAIN renderers : zorder[renderers[i]] = i - 1

\* C11: clear_renderers() is refused while the Manager runs.  Running: it
\* returns False and the list stays; stopped: it returns True and the list
\* becomes empty.  No step takes a renderer off the list while the Manager
\* runs, and a step that empties the list leaves the running flag alone.
C11_ClearOnlyWhileStopped ==
    /\ [](/\ running => ClearResult = [ret |-> FALSE, renderers |-> renderers]
          /\ ~running => ClearResult = [ret |-> TRUE, renderers |-> <<>>])
    /\ [][Len(renderers') < Len(renderers) =>
            ~running /\ renderers' = <<>> /\ running' = running]_vars

\* clear_renderers() has emptied the list of a stopped Manager whose last
\* loop still exists.
C11_Witness ==
    /\ ~running
    /\ renderers = <<>>
    /\ \E L \in LIds : lAlive[L] /\ mgrLoop = L

\* Nothing is scheduled and no timer or draw() is pending: the program takes
\* no further step until the Manager is called.
Quiescent == ready = <<>> /\ \A id \in ResumeIds : ~CanResume(id)

\* C12: finish() once per transition to Stopped.  A renderer has received
\* at most one finish() since it last became Running, and none while it is
\* Running; and when the program has come to rest, a renderer stopped by
\* the exception of its draw() has received one.
C12_FinishOncePerStop ==
    /\ \A r \in RIds :
          /\ finished[r] <= 1
          /\ rRunning[r] => finished[r] = 0
    /\ \A L \in LIds : \A i \in DOMAIN tasks[L] \cap DOMAIN lRenderers[L] :
          (/\ Quiescent
           /\ tasks[L][i].pc = "draw_failed"
           /\ ~rRunning[lRenderers[L][i]])
          => finished[lRenderers[L][i]] = 1

\* C20: every slot is committed.  While the _animate task of a running loop
\* is suspended in the asyncio.wait of _get_layers, with nothing to wake it
\* scheduled, no slot of the loop has changed since its last commit.
C20_SlotsCommitted ==
    \A L \in LIds :
      (/\ lRunning[L]
       /\ animT[L].pc = "wait"
       /\ ~animT[L].cancel
       /\ ~InReady(TaskId("anim", L, 0)))
      => ~dirty[L]


----------------------------------------------------------------------------
\* The Frame (frame.py): a height x width array of cells, drawn on by put,
\* line and circle, and sent to the driver by prepare, commit and update.
\*
\* A cell keeps two of its four channels, <<rgb, alpha>>: the code treats
\* red, green and blue alike.  A channel value is an integer of 0..One that
\* stands for a Python float (a double) of 0.0 .. 1.0; the array stores
\* np.float32, which holds only every F32Step-th of these values.

MaxHeight == 3         \* Frames of 1 .. MaxHeight rows
MaxDrawWidth == 3      \* the Frames that are drawn on have 1 .. MaxDrawWidth columns
MaxLevel == 2          \* single-precision steps between 0.0 and 1.0
AlphaMax == 2          \* a coverage is a/AlphaMax, a \in 0..AlphaMax
MaxDraws == 2          \* drawing calls between two clears
MaxRadius == 2         \* radius of the circles drawn

MAX_WIDTH == 24
DEFAULT_FRAME_ID == 255
F32Step == 2           \* doubles per np.float32 value (dtype of _matrix)
One == F32Step * MaxLevel
Chan == 0..One

Rows(h) == 0..(h - 1)
Cols(w) == 0..(w - 1)

\* n/d rounded to the nearest integer, a tie to the even one: the result of a
\* double operation.
RoundDiv(n, d) ==
    LET q == n \div d
        r == n % d
    IN  IF 2 * r < d THEN q
        ELSE IF 2 * r > d THEN q + 1
        ELSE IF q % 2 = 0 THEN q ELSE q + 1

\* The np.float32 nearest to a double: what an assignment into _matrix stores.
Narrow(x) == F32Step * RoundDiv(x, F32Step)

\* img[rr, cc] * (1 - alpha) + color * alpha for one channel, stored.
Blend(old, new, a) == Narrow(RoundDiv(old * (AlphaMax - a) + new * a, AlphaMax))

BlendCell(old, color, a) == <<Blend(old[1], color[1], a), Blend(old[2], color[2], a)>>

\* np.zeros(shape=(height, width, 4)), and what clear() leaves.
Zeros(h, w) == [r \in Rows(h) |-> [c \in Cols(w) |-> <<0, 0>>]]

\* _coords_inside_image: the points of a raster that lie in the image.
CoordsInsideImage(pts, h, w) ==
    {p \in pts : p.r >= 0 /\ p.r < h /\ p.c >= 0 /\ p.c < w}

\* _set_color(img, coords, color, alpha): coords is a tuple of ncoords arrays
\* and pts the points they hold, each with its coverage.  The unpacking
\* "rr, cc = coords" needs a tuple of two; a read-only img refuses the store.
SetColor(img, h, w, rw, ncoords, pts, color) ==
    IF ncoords # 2 THEN [raised |-> TRUE, img |-> img]
    ELSE LET inside == CoordsInsideImage(pts, h, w)
         IN  IF ~rw THEN [raised |-> TRUE, img |-> img]
             ELSE [raised |-> FALSE,
                   img |-> [r \in Rows(h) |-> [c \in Cols(w) |->
                             IF \E p \in inside : p.r = r /\ p.c = c
                             THEN LET p == CHOOSE q \in inside : q.r = r /\ q.c = c
                                  IN  BlendCell(img[r][c], color, p.a)
                             ELSE img[r][c]]]]

\* put(row, col, color): one point, alpha = 1.
PutResult(img, h, w, rw, row, col, color) ==
    SetColor(img, h, w, rw, 2, {[r |-> row, c |-> col, a |-> AlphaMax]}, color)

\* get(row, col): self._matrix[row][col]; a negative index counts from the
\* end, an index outside -n .. n-1 raises IndexError.
Index(i, n) == IF i < 0 THEN i + n ELSE i

GetResult(img, h, w, row, col) ==
    IF row < -h \/ row >= h \/ col < -w \/ col >= w
    THEN [raised |-> TRUE, color |-> <<0, 0>>]
    ELSE [raised |-> FALSE, color |-> img[Index(row, h)][Index(col, w)]]

\* skimage.draw.circle(row, col, radius, shape): the cells of the disc that
\* lie in the shape, each covered wholly.
DrawCircle(row, col, radius, h, w) ==
    {[r |-> r, c |-> c, a |-> AlphaMax] : <<r, c>> \in
        {rc \in Rows(h) \X Cols(w) :
            (rc[1] - row) * (rc[1] - row) + (rc[2] - col) * (rc[2] - col) < radius * radius}}

\* skimage.draw.circle_perimeter_aa(row, col, radius, shape): the cells of
\* the shape on the circle are covered wholly, those beside it in part.
Dist2(r, c, row, col) == (r - row) * (r - row) + (c - col) * (c - col)

DrawCirclePerimeterAA(row, col, radius, h, w) ==
    {[r |-> rc[1], c |-> rc[2],
      a |-> IF Dist2(rc[1], rc[2], row, col) = radius * radius THEN AlphaMax ELSE 1] :
        rc \in {x \in Rows(h) \X Cols(w) :
                  /\ Dist2(x[1], x[2], row, col) > (radius - 1) * (radius - 1)
                  /\ Dist2(x[1], x[2], row, col) < (radius + 1) * (radius + 1)}}

\* circle(row, col, radius, color, fill)
CircleResult(img, h, w, rw, row, col, radius, color, fill) ==
    IF fill
    THEN SetColor(img, h, w, rw, 2, DrawCircle(row, col, radius, h, w), color)
    ELSE SetColor(img, h, w, rw, 2, DrawCirclePerimeterAA(row, col, radius, h, w), color)

\* uchroma.util.clamp as line() uses it: the value kept within lo .. hi.
Clamp(lo, hi, v) == IF v < lo THEN lo ELSE IF v > hi THEN hi ELSE v

\* skimage.draw.line_aa(r1, c1, r2, c2): the cells on the segment, covered
\* wholly (the cells beside it, covered in part, are left out).
DrawLineAA(r1, c1, r2, c2) ==
    LET lo(a, b) == IF a < b THEN a ELSE b
        hi(a, b) == IF a < b THEN b ELSE a
    IN  {[r |-> rc[1], c |-> rc[2], a |-> AlphaMax] :
            rc \in {x \in (lo(r1, r2)..hi(r1, r2)) \X (lo(c1, c2)..hi(c1, c2)) :
                      (x[1] - r1) * (c2 - c1) = (x[2] - c1) * (r2 - r1)}}

\* line(row1, col1, row2, col2, color): _set_color is given the tuple of
\* three arrays (rr, cc, aa).
LineResult(img, h, w, rw, row1, col1, row2, col2, color) ==
    SetColor(img, h, w, rw, 3,
             DrawLineAA(Clamp(0, h, row1), Clamp(0, w, col1),
                        Clamp(0, h, row2), Clamp(0, w, col2)), color)

----------------------------------------------------------------------------
\* Sending a Frame to the driver.  The driver (uchroma.device_base) is the
\* transport: run_command and custom_frame each issue one transaction.  A
\* call of a Frame method meets a transport t that lets one of the calls,
\* the t.at-th, fail: it returns an error ("error") or raises ("raise").

None == -1             \* an argument that is None or not passed
TID_80 == 128          \* transaction_id 0x80

Min(a, b) == IF a < b THEN a ELSE b

Transports(h) == [at : 1..(h + 2), kind : {"error", "raise"}]

Outcome(t, n) == IF n = t.at THEN t.kind ELSE "ok"

\* ColorUtils.rgba2rgb(self._matrix, base_color.rgb) over the base colour
\* black: opaque = rgb * alpha.
AsImg(img, h, w) == [r \in Rows(h) |-> [c \in Cols(w) |-> RoundDiv(img[r][c][1] * img[r][c][2], One)]]

\* line[:width]
Slice(line, wd) == [c \in Cols(wd) |-> line[c]]

\* One call of the driver: the transaction is logged with the WRITEABLE flag
\* of _matrix when it is issued and with the transport's outcome.
RunCommand(log, t, rw, cmd, fid, row, start, count, data, tid, remaining) ==
    Append(log, [cmd |-> cmd, fid |-> fid, row |-> row, start |-> start,
                 count |-> count, data |-> data, tid |-> tid,
                 remaining |-> remaining, rw |-> rw,
                 res |-> Outcome(t, Len(log) + 1)])

Raised(log) == log # <<>> /\ log[Len(log)].res = "raise"

\* _set_frame_data_single
SetFrameDataSingle(img, h, w, q, rw, fid, t, log) ==
    LET wd == Min(w, MAX_WIDTH)
        l2 == RunCommand(log, t, rw, "single", None, None, 0, wd,
                         Slice(AsImg(img, h, w)[0], wd), TID_80, None)
    IN  [raised |-> Raised(l2), log |-> l2]

\* The transaction of one row with the rows still to come counted from height - row
MatrixTx_RemainingOffByOne(img, h, w, q, rw, fid, t, log, row) ==
    LET wd == Min(w, MAX_WIDTH)
        tid == IF q THEN TID_80 ELSE None
    IN  RunCommand(log, t, rw, "matrix", fid, row, 0, wd,
                   Slice(AsImg(img, h, w)[row], wd), tid, h - row)

\* The transaction of one row of _set_frame_data_matrix (the loop's body)
MatrixTx(img, h, w, q, rw, fid, t, log, row) ==
    LET wd == Min(w, MAX_WIDTH)
        tid == IF q THEN TID_80 ELSE None
    IN  RunCommand(log, t, rw, "matrix", fid, row, 0, wd,
                   Slice(AsImg(img, h, w)[row], wd), tid, h - row - 1)

\* _set_frame_data_matrix: for row in range(0, height), until a call raises.
\* What run_command returns is not looked at.
RECURSIVE MatrixRows(_, _, _, _, _, _, _, _, _)
MatrixRows(img, h, w, q, rw, fid, t, log, row) ==
    IF row >= h THEN [raised |-> FALSE, log |-> log]
    ELSE LET l2 == MatrixTx(img, h, w, q, rw, fid, t, log, row)
         IN  IF Raised(l2) THEN [raised |-> TRUE, log |-> l2]
             ELSE MatrixRows(img, h, w, q, rw, fid, t, l2, row + 1)

SetFrameDataMatrix(img, h, w, q, rw, fid, t, log) ==
    MatrixRows(img, h, w, q, rw, fid, t, log, 0)

\* _set_frame_data without the test of the height
SetFrameData_AlwaysMatrix(img, h, w, q, rw, fid, t, log) ==
    LET frame_id == IF fid = None THEN DEFAULT_FRAME_ID ELSE fid
    IN  SetFrameDataMatrix(img, h, w, q, rw, frame_id, t, log)

\* _set_frame_data
SetFrameData(img, h, w, q, rw, fid, t, log) ==
    LET frame_id == IF fid = None THEN DEFAULT_FRAME_ID ELSE fid
    IN  IF h = 1 THEN SetFrameDataSingle(img, h, w, q, rw, frame_id, t, log)
        ELSE SetFrameDataMatrix(img, h, w, q, rw, frame_id, t, log)

\* commit(): driver.custom_frame(), the command that displays the frame
CommitResult(img, rw, t, log) ==
    LET l2 == RunCommand(log, t, rw, "flip", None, None, None, None, <<>>, None, None)
    IN  [raised |-> Raised(l2), img |-> img, writeable |-> rw, log |-> l2]

\* prepare(frame_id)
PrepareResult(img, h, w, q, fid, t, log) ==
    LET s == SetFrameData(img, h, w, q, FALSE, fid, t, log)
    IN  [raised |-> s.raised,
         img |-> IF s.raised THEN img ELSE Zeros(h, w),
         writeable |-> TRUE,
         log |-> s.log]

\* update(frame_id) without its finally clause
UpdateResult_NoFinally(img, h, w, q, fid, t, log) ==
    LET s == SetFrameData(img, h, w, q, FALSE, fid, t, log)
        c == CommitResult(img, FALSE, t, s.log)
    IN  IF s.raised
        THEN [raised |-> TRUE, img |-> img, writeable |-> FALSE, log |-> s.log]
        ELSE [raised |-> c.raised, img |-> img, writeable |-> ~c.raised, log |-> c.log]

\* update(frame_id)
UpdateResult(img, h, w, q, fid, t, log) ==
    LET s == SetFrameData(img, h, w, q, FALSE, fid, t, log)
        c == CommitResult(img, FALSE, t, s.log)
    IN  IF s.raised
        THEN [raised |-> TRUE, img |-> img, writeable |-> TRUE, log |-> s.log]
        ELSE [raised |-> c.raised, img |-> img, writeable |-> TRUE, log |-> c.log]

----------------------------------------------------------------------------
\* The calls of a Frame.  Each is one step; it leaves the animation engine
\* alone, and txlog holds the transactions of the last call only.

\* The colours draws with: opaque white, an opaque colour that np.float32
\* holds, and an opaque colour that only a double holds.
Colors == {<<One, One>>, <<F32Step, One>>, <<1, One>>}

\* The coordinates tried along an axis of n cells: both ends and one step
\* beyond each.
Coords(n) == {-1, 0, n - 1, n}

FrameIds == {None, 1}

FrameOnly == UNCHANGED <<animVars, height, width, quirk>>

Put(row, col, color) ==
    /\ draws < MaxDraws
    /\ \E p \in {PutResult(matrix, height, width, writeable, row, col, color)} :
         matrix' = p.img /\ fRaised' = p.raised
    /\ draws' = draws + 1
    /\ fOp' = "put"
    /\ txlog' = <<>>
    /\ UNCHANGED writeable
    /\ FrameOnly

Line(row1, col1, row2, col2, color) ==
    /\ draws < MaxDraws
    /\ \E p \in {LineResult(matrix, height, width, writeable, row1, col1, row2, col2, color)} :
         matrix' = p.img /\ fRaised' = p.raised
    /\ draws' = draws + 1
    /\ fOp' = "line"
    /\ txlog' = <<>>
    /\ UNCHANGED writeable
    /\ FrameOnly

Circle(row, col, radius, color, fill) ==
    /\ draws < MaxDraws
    /\ \E p \in {CircleResult(matrix, height, width, writeable, row, col, radius, color, fill)} :
         matrix' = p.img /\ fRaised' = p.raised
    /\ draws' = draws + 1
    /\ fOp' = "circle"
    /\ txlog' = <<>>
    /\ UNCHANGED writeable
    /\ FrameOnly

\* clear(): self._matrix.fill(0)
Clear ==
    /\ matrix' = IF writeable THEN Zeros(height, width) ELSE matrix
    /\ fRaised' = ~writeable
    /\ draws' = IF writeable THEN 0 ELSE draws
    /\ fOp' = "clear"
    /\ txlog' = <<>>
    /\ UNCHANGED writeable
    /\ FrameOnly

Prepare(fid, t) ==
    /\ \E p \in {PrepareResult(matrix, height, width, quirk, fid, t, <<>>)} :
         /\ matrix' = p.img
         /\ writeable' = p.writeable
         /\ txlog' = p.log
         /\ fRaised' = p.raised
         /\ draws' = IF p.raised THEN draws ELSE 0
    /\ fOp' = "prepare"
    /\ FrameOnly

Commit(t) ==
    /\ \E p \in {CommitResult(matrix, writeable, t, <<>>)} :
         /\ txlog' = p.log
         /\ fRaised' = p.raised
    /\ fOp' = "commit"
    /\ UNCHANGED <<matrix, draws, writeable>>
    /\ FrameOnly

Update(fid, t) ==
    /\ \E p \in {UpdateResult(matrix, height, width, quirk, fid, t, <<>>)} :
         /\ matrix' = p.img
         /\ writeable' = p.writeable
         /\ txlog' = p.log
         /\ fRaised' = p.raised
    /\ fOp' = "update"
    /\ UNCHANGED draws
    /\ FrameOnly

\* A Frame of any of the sizes that matter to the encoder, as constructed.
FrameInit ==
    /\ AnimInit
    /\ \E h \in 1..MaxHeight, w \in {1, MAX_WIDTH + 1}, q \in BOOLEAN :
          FrameIdle(h, w, q)

FrameNext ==
    \/ \E row \in {0, height - 1}, col \in {0, width - 1}, color \in Colors :
          Put(row, col, color)
    \/ Clear
    \/ \E fid \in FrameIds, t \in Transports(height) : Prepare(fid, t)
    \/ \E t \in Transports(height) : Commit(t)
    \/ \E fid \in FrameIds, t \in Transports(height) : Update(fid, t)

\* The encoder: a Frame draws on by put() and sent to the driver.
FrameSpec == FrameInit /\ [][FrameNext]_vars

\* A small Frame to draw on.
DrawInit ==
    /\ AnimInit
    /\ \E h \in 1..MaxHeight, w \in 1..MaxDrawWidth : FrameIdle(h, w, FALSE)

DrawNext ==
    \/ \E row \in Coords(height), col \in Coords(width), color \in Colors :
          Put(row, col, color)
    \/ \E row1 \in Coords(height), col1 \in Coords(width), color \in Colors :
          Line(row1, col1, height - 1, width - 1, color)
    \/ \E row \in Coords(height), col \in Coords(width), radius \in 1..MaxRadius,
          color \in Colors, fill \in BOOLEAN :
          Circle(row, col, radius, color, fill)
    \/ Clear

\* The drawing primitives on a Frame.
DrawSpec == DrawInit /\ [][DrawNext]_vars

----------------------------------------------------------------------------
\* Properties of the Frame

\* What the driver is given: the transactions without the flag observed on
\* the Frame.
Wire(log) ==
    [i \in DOMAIN log |->
        [cmd |-> log[i].cmd, fid |-> log[i].fid, row |-> log[i].row,
         start |-> log[i].start, count |-> log[i].count, data |-> log[i].data,
         tid |-> log[i].tid, remaining |-> log[i].remaining, res |-> log[i].res]]

\* prepare(frame_id); commit(): the second call is made when the first returns
PrepareCommitResult(img, h, w, q, fid, t) ==
    LET p == PrepareResult(img, h, w, q, fid, t, <<>>)
    IN  IF p.raised THEN p ELSE CommitResult(p.img, p.writeable, t, p.log)

\* C13: from the same Frame and against the same transport, update(frame_id)
\* and prepare(frame_id) followed by commit() give the driver the same
\* transactions, the flip last, and leave the Frame with the same cells and
\* the same WRITEABLE flag, which is set.
C13_UpdateIsPrepareCommit ==
    \A fid \in FrameIds, t \in Transports(height) :
        LET u == UpdateResult(matrix, height, width, quirk, fid, t, <<>>)
            pc == PrepareCommitResult(matrix, height, width, quirk, fid, t)
        IN  /\ Wire(u.log) = Wire(pc.log)
            /\ u.raised = pc.raised
            /\ u.writeable /\ pc.writeable
            /\ u.img = pc.img

\* C14: every transaction that prepare() or update() gave the driver was
\* issued while _matrix was read-only, and when the call has ended, by
\* returning or by an exception of the transport, _matrix is writeable.
C14_ReadOnlyWhileSending ==
    fOp \in {"prepare", "update"} =>
        /\ \A i \in DOMAIN txlog : ~txlog[i].rw
        /\ writeable

\* update() ended by an exception that the transport raised on a row that
\* is neither the first nor the last.
C14_Witness ==
    /\ fOp = "update" /\ fRaised /\ writeable
    /\ Len(txlog) > 1 /\ Len(txlog) < height
    /\ txlog[Len(txlog)].res = "raise"

\* C15: when the transport failed on the transaction of a row, prepare() or
\* update() ended by that error: the transaction of the row was issued once,
\* and no transaction of a later row and no flip followed it.
C15_TransportErrorPropagates ==
    fOp \in {"prepare", "update"} =>
        \A i \in DOMAIN txlog :
            (txlog[i].cmd # "flip" /\ txlog[i].res # "ok") =>
                /\ fRaised
                /\ i = Len(txlog)
                /\ \A j \in DOMAIN txlog :
                      (txlog[j].cmd = txlog[i].cmd /\ txlog[j].row = txlog[i].row) => j = i

\* The transactions of txlog that carry frame data
DataTx == SelectSeq(txlog, LAMBDA x : x.cmd # "flip")

\* C16: prepare() or update() of a Frame of more than one row has issued one
\* matrix transaction per row, in the order of the rows from 0, each of start
\* column 0 and of min(width, 24) columns, the i-th with height - i rows still
\* to come (0 on the last row only), tagged 0x80 exactly when the device has
\* the quirk CUSTOM_FRAME_80; there are height of them unless the transport
\* raised on one, which is then the last.
C16_MatrixChunking ==
    (fOp \in {"prepare", "update"} /\ height > 1) =>
        /\ \/ Len(DataTx) = height
           \/ /\ fRaised /\ DataTx # <<>> /\ Len(DataTx) < height
              /\ DataTx[Len(DataTx)].res = "raise"
        /\ \A i \in DOMAIN DataTx :
              /\ DataTx[i].cmd = "matrix"
              /\ DataTx[i].row = i - 1
              /\ DataTx[i].start = 0
              /\ DataTx[i].count = Min(width, MAX_WIDTH)
              /\ DOMAIN DataTx[i].data = Cols(Min(width, MAX_WIDTH))
              /\ DataTx[i].remaining = height - i
              /\ (DataTx[i].remaining = 0) = (i = height)
              /\ (DataTx[i].tid = TID_80) = quirk
              /\ (DataTx[i].tid = None) = ~quirk

\* update() has sent a Frame of the most rows, wider than MAX_WIDTH, to a
\* device with the quirk, and has flipped.
C16_Witness ==
    /\ fOp = "update" /\ ~fRaised
    /\ height = MaxHeight /\ height > 1 /\ width > MAX_WIDTH /\ quirk
    /\ Len(DataTx) = height /\ Len(txlog) = height + 1
    /\ DataTx[height].remaining = 0

\* C17: prepare() or update() of a Frame of one row has issued one
\* transaction of frame data, a single-row one of start column 0 and of
\* min(width, 24) columns, and no matrix transaction; of a Frame of more rows
\* it has issued no single-row transaction.
C17_ModeByHeight ==
    fOp \in {"prepare", "update"} =>
        IF height = 1
        THEN /\ Len(DataTx) = 1
             /\ DataTx[1].cmd = "single"
             /\ DataTx[1].start = 0
             /\ DataTx[1].count = Min(width, MAX_WIDTH)
             /\ DOMAIN DataTx[1].data = Cols(Min(width, MAX_WIDTH))
        ELSE \A i \in DOMAIN DataTx : DataTx[i].cmd # "single"

\* prepare() has sent a Frame of one cell.
C17_Witness ==
    /\ fOp = "prepare" /\ ~fRaised
    /\ height = 1 /\ width = 1
    /\ Len(txlog) = 1 /\ txlog[1].cmd = "single" /\ txlog[1].count = 1

\* C18: on any contents of the Frame, put(row, col, color) at a cell of the
\* Frame followed by get(row, col) returns color and no other cell has
\* changed; a second put of the same colour leaves the cell at color.
C18_PutThenGet ==
    \A row \in Rows(height), col \in Cols(width), color \in Colors :
        LET p == PutResult(matrix, height, width, writeable, row, col, color)
            p2 == PutResult(p.img, height, width, writeable, row, col, color)
        IN  /\ ~p.raised /\ ~p2.raised
            /\ GetResult(p.img, height, width, row, col) = [raised |-> FALSE, color |-> color]
            /\ \A r \in Rows(height), c \in Cols(width) :
                  <<r, c>> # <<row, col>> => p.img[r][c] = matrix[r][c]
            /\ GetResult(p2.img, height, width, row, col) = [raised |-> FALSE, color |-> color]
            /\ p2.img = p.img

\* A cell of the Frame
InRange(row, col) == row \in Rows(height) /\ col \in Cols(width)

\* C19: no call of put(), line() or circle() has ended by an exception; a
\* put() at a coordinate outside the Frame changes no cell, and a circle()
\* whose disc reaches beyond the Frame does not raise and changes cells of
\* its raster only.
C19_OutOfRangeClipped ==
    /\ fOp \in {"put", "line", "circle"} => ~fRaised
    /\ \A row \in Coords(height), col \in Coords(width), color \in Colors :
          /\ ~InRange(row, col) =>
                PutResult(matrix, height, width, writeable, row, col, color)
                    = [raised |-> FALSE, img |-> matrix]
          /\ \A radius \in 1..MaxRadius, fill \in BOOLEAN :
                LET p == CircleResult(matrix, height, width, writeable,
                                      row, col, radius, color, fill)
                IN  /\ ~p.raised
                    /\ \A r \in Rows(height), c \in Cols(width) :
                          p.img[r][c] # matrix[r][c] =>
                              Dist2(r, c, row, col) < (radius + 1) * (radius + 1)

----------------------------------------------------------------------------
\* Properties of the compositor's cycle

\* The renderer whose pending queue the wait at index i of the loop reads.
WaitRenderer(L, i) ==
    IF waiters[L][i].pc = "get" THEN waiters[L][i].r ELSE lRenderers[L][i]

\* The next step of the program takes a Layer of the renderer at index i
\* into slot i of the loop: its _dequeue task runs with a Layer pending, or
\* _get_layers resumes and calls _dequeue_nowait for it with a Layer pending.
Consuming(L, i) ==
    /\ ~Garbage
    /\ i \in DOMAIN waiters[L]
    /\ \/ /\ IsHead(TaskId("deq", L, i))
          /\ ~waiters[L][i].cancel
          /\ \/ waiters[L][i].pc = "get"
             \/ waiters[L][i].pc = "new" /\ lRunning[L] /\ i <= Len(lRenderers[L])
       \/ /\ IsHead(TaskId("anim", L, 0))
          /\ ~animT[L].cancel
          /\ animT[L].pc = "wait"
          /\ waiters[L][i].pc # "None" /\ ~IsDone(waiters[L][i])
          /\ lRunning[L] /\ i <= Len(lRenderers[L])
    /\ active_q[WaitRenderer(L, i)] # <<>>

\* C21: when the compositor takes a Layer of a renderer, by _dequeue or by
\* _dequeue_nowait, that Layer becomes the renderer's slot, the Layer the
\* slot held is unlocked, cleared and appended to the free pool of that
\* renderer, and no other slot and no other free pool changes.
C21_ConsumeReplacesSlot ==
    \A L \in LIds, i \in RIds :
      Consuming(L, i) =>
        LET r == WaitRenderer(L, i)
            old == active_bufs[L][i]
            c == Consume(QState, active_bufs[L], r, i)
        IN  /\ c.q.ok
            /\ c.bufs[i] = Head(active_q[r])
            /\ \A j \in DOMAIN active_bufs[L] \ {i} : c.bufs[j] = active_bufs[L][j]
            /\ \A s \in RIds \ {r} : c.q.avail[s] = avail_q[s]
            /\ IF old = 0 THEN c.q.avail[r] = avail_q[r]
               ELSE /\ ~c.q.locked[old] /\ ~c.q.drawn[old]
                    /\ c.q.avail[r] = Append(avail_q[r], old)

\* C23: contributions are in z-order.  The renderer at index i of a loop's
\* list has z-order i (counted from 0); a Layer enters the pending queue of a
\* renderer only from a _run task of that renderer, which drew it; and a slot
\* i of a loop only ever receives the head of the pending queue of a renderer
\* of z-order i.
C23_SlotsInZOrder ==
    /\ [](\A L \in LIds : \A i \in DOMAIN lRenderers[L] :
             zorder[lRenderers[L][i]] = i - 1)
    /\ [][~Garbage =>
            /\ \A r \in RIds :
                  active_q'[r] # active_q[r] /\ Len(active_q'[r]) >= Len(active_q[r]) =>
                    \E L \in LIds : \E i \in DOMAIN tasks[L] :
                       /\ IsHead(TaskId("run", L, i))
                       /\ tasks[L][i].r = r
                       /\ tasks[L][i].pc \in {"draw", "put"}
                       /\ active_q'[r] = Append(active_q[r], tasks[L][i].layer)
            /\ \A L \in LIds : \A i \in DOMAIN active_bufs[L] :
                  active_bufs'[L][i] # active_bufs[L][i] =>
                    \E r \in RIds :
                       /\ zorder[r] = i - 1
                       /\ active_q[r] # <<>>
                       /\ active_bufs'[L][i] = Head(active_q[r])
                       /\ active_q'[r] = Tail(active_q[r])
       ]_vars

\* A running loop of two renderers has committed with the second renderer's
\* Layer in its slot and nothing yet from the first.
C23_Witness ==
    \E L \in LIds :
      /\ lRunning[L] /\ animT[L].pc = "tick"
      /\ Len(active_bufs[L]) = 2
      /\ active_bufs[L][1] = 0 /\ active_bufs[L][2] # 0

\* The step takes a Layer of the renderer at index i into slot i of the loop.
Takes(L, i) ==
    /\ Consuming(L, i)
    /\ waiters'[L][i] # waiters[L][i] \/ animT'[L] # animT[L]

\* C25: a renderer that produces nothing keeps its contribution.  In a step
\* of a running loop that takes no Layer of the renderer at index i, slot i
\* holds the same Layer after the step, and that Layer keeps its lock and
\* its content and is in no free pool.
C25_IdleSlotKept ==
    [][\A L \in LIds : \A i \in DOMAIN active_bufs[L] :
         (/\ ~Garbage
          /\ active_bufs[L][i] # 0
          /\ lRunning[L] /\ lRunning'[L]
          /\ ~Takes(L, i))
         => /\ active_bufs'[L][i] = active_bufs[L][i]
            /\ locked'[active_bufs[L][i]] = locked[active_bufs[L][i]]
            /\ drawn'[active_bufs[L][i]] = drawn[active_bufs[L][i]]
            /\ \A r \in RIds : active_bufs[L][i] \notin Range(avail_q'[r])
      ]_vars

\* A running loop of two renderers has just committed a Layer newly taken
\* of the second renderer together with the Layer that the first renderer,
\* which has produced nothing since, contributed to an earlier commit.
C25_Witness ==
    \E L \in LIds :
      /\ lRunning[L] /\ animT[L].pc = "tick" /\ ~dirty[L]
      /\ Len(active_bufs[L]) = 2
      /\ active_bufs[L][1] # 0 /\ locked[active_bufs[L][1]] /\ drawn[active_bufs[L][1]]
      /\ waiters[L][1].pc = "get" /\ active_q[waiters[L][1].r] = <<>>
      /\ waiters[L][2].pc = "done" /\ active_bufs[L][2] # 0

\* A _run task of the renderer has not terminated.
LiveRun(r) ==
    \E L \in LIds : \E i \in DOMAIN tasks[L] :
       tasks[L][i].r = r /\ ~IsDone(tasks[L][i])

\* A start has allocated Layers for the renderer and the _animate task of
\* that loop has not yet created the renderer's _run task.
Allocated(r) ==
    \E L \in LIds : /\ lAlive[L] /\ animT[L].pc = "new"
                    /\ r \in Range(lRenderers[L])

LayerCount(L, i) ==
    Len(avail_q[lRenderers[L][i]]) + Len(active_q[lRenderers[L][i]])
    + (IF i \in DOMAIN tasks[L] /\ tasks[L][i].layer # 0 THEN 1 ELSE 0)
    + (IF active_bufs[L][i] # 0 THEN 1 ELSE 0)

\* C27: Layer conservation.  While a loop and a renderer of it both run, the
\* renderer's free pool, its pending queue, the Layer being drawn and the
\* Layer in its slot add up to the same number (NUM_BUFFERS, allocated by the
\* start) before and after every step.  Stated for the steps with a single
\* loop, where no other loop shares the renderer's queues.
C27_LayerConservation ==
    [][\A L \in LIds : \A i \in DOMAIN lRenderers[L] :
         (/\ ~Garbage /\ NumLoops = 1 /\ NumLoops' = 1
          /\ lRunning[L] /\ lRunning'[L] /\ lRenderers'[L] = lRenderers[L]
          /\ rRunning[lRenderers[L][i]] /\ rRunning'[lRenderers[L][i]])
         => LayerCount(L, i)' = LayerCount(L, i)
      ]_vars

\* A put_nowait of _free_layer has raised QueueFull in the loop L: out of
\* _create_buffers, which leaves start() before _animate is scheduled, out of a
\* _dequeue task or out of _dequeue_nowait inside _animate.
Overflowed(L) ==
    /\ lAlive[L]
    /\ \/ lRunning[L] /\ animT[L].pc = "None"
       \/ animT[L].pc = "failed"
       \/ \E i \in DOMAIN waiters[L] : waiters[L][i].pc = "failed"

\* C28: _free_layer never overflows.  No call of it finds the free pool
\* holding NUM_BUFFERS Layers, a stop() followed at once by a start()
\* included.
C28_FreeLayerNeverOverflows == \A L \in LIds : ~Overflowed(L)

\* The _animate task of the loop or one of its _run tasks has not terminated.
ActiveLoop(L) ==
    /\ lAlive[L]
    /\ \/ animT[L].pc # "None" /\ ~IsDone(animT[L])
       \/ \E i \in DOMAIN tasks[L] : ~IsDone(tasks[L][i])

\* C29: at most one compositing loop is active per Manager.  No two loops
\* both have a loop task or a renderer task that has not terminated, and no
\* renderer is inside draw() in two tasks at once.
C29_OneActiveLoop ==
    /\ Cardinality({L \in LIds : ActiveLoop(L)}) <= 1
    /\ \A r \in RIds : Cardinality(Drawing(r)) <= 1

\* The step is one of _animate in which _get_layers returns and
\* _commit_layers is called (the commit succeeds or raises).
Commits(L) ==
    /\ ~Garbage
    /\ IsHead(TaskId("anim", L, 0))
    /\ animT[L].pc = "wait" /\ ~animT[L].cancel
    /\ animT'[L].pc \in {"tick", "commit_failed"}

\* C24: the compositor is demand-driven.  Every commit is preceded by the
\* arrival of a new Layer in a slot: a slot of the loop has changed since the
\* loop's previous commit (since its start, for the first commit).
C24_CommitNeedsNewLayer ==
    [][\A L \in LIds :
         Commits(L) => dirty[L] \/ active_bufs'[L] # active_bufs[L]]_vars

\* A loop has committed: it sleeps out its tick with a Layer in a slot.
C24_Witness ==
    \E L \in LIds : /\ lRunning[L] /\ animT[L].pc = "tick" /\ ~dirty[L]
                    /\ \E i \in DOMAIN active_bufs[L] : active_bufs[L][i] # 0

\* The step is one of _animate in which _get_layers, resumed from its
\* asyncio.wait, returns.
Returns(L) ==
    /\ ~Garbage
    /\ IsHead(TaskId("anim", L, 0))
    /\ animT[L].pc = "wait" /\ ~animT[L].cancel
    /\ animT'[L].pc \notin {"wait", "failed"}

\* C22: a cycle consumes output from every ready renderer.  When _get_layers
\* of a loop returns, every renderer of the loop whose pending queue
\* held a Layer when the asyncio.wait completed has had a Layer taken into
\* its slot since the wait began: by its _dequeue task or by _dequeue_nowait.
C22_EveryReadyConsumed ==
    [][\A L \in LIds :
         Returns(L) =>
           \A i \in DOMAIN lRenderers[L] :
              active_q[lRenderers[L][i]] # <<>> =>
                \/ i \in taken[L]
                \/ active_bufs'[L][i] # active_bufs[L][i]
      ]_vars

\* A cycle of a loop of two renderers has ended in a commit; the first
\* renderer's Layer was taken by its _dequeue task, the second renderer's by
\* _dequeue_nowait: its _dequeue task, woken by the put, has yet to run and
\* will find the queue empty.
C22_Witness ==
    \E L \in LIds :
      /\ lRunning[L] /\ animT[L].pc = "tick" /\ ~dirty[L]
      /\ Len(lRenderers[L]) = 2 /\ Len(waiters[L]) = 2
      /\ waiters[L][1].pc = "done"
      /\ waiters[L][2].pc = "get" /\ InReady(TaskId("deq", L, 2))
      /\ active_q[lRenderers[L][2]] = <<>>
      /\ active_bufs[L][2] # 0

====
